---------------------------- MODULE Spec2Model ----------------------------
(***************************************************************************)
(* The solar-farm dashboard (app/main.py) and the archive utility          *)
(* (app/utils.py) as state machines.                                       *)
(*                                                                         *)
(* A process either runs the dashboard script, which Streamlit executes    *)
(* top to bottom once per render (rerun), or it is a caller of             *)
(* extract_datasets.  The dashboard's state is the two st.cache_data       *)
(* memos, the script's locals and position, and what the render has put on *)
(* the page (st.error messages, the displayed outlier count).              *)
(*                                                                         *)
(* Strings the program computes on (dataset names, the cleaned-file paths) *)
(* are sequences of one-character strings, so that lower(), replace() and  *)
(* os.path.join are computed character by character.                       *)
(***************************************************************************)
EXTENDS Integers, Sequences, FiniteSets

(***************************************************************************)
(* Bounds of the model.                                                    *)
(***************************************************************************)
\* most rows an input CSV file holds
MaxRows == 1
\* most renders (script runs) of one process
MaxRenders == 2
\* most members of an archive handed to extract_datasets
MaxMembers == 3

(***************************************************************************)
(* Strings.                                                                *)
(***************************************************************************)
UpperCase == <<"A","B","C","D","E","F","G","H","I","J","K","L","M","N","O","P","Q","R","S","T","U","V","W","X","Y","Z">>
LowerCase == <<"a","b","c","d","e","f","g","h","i","j","k","l","m","n","o","p","q","r","s","t","u","v","w","x","y","z">>

\* str.lower() on one character
LowerChar(c) ==
    IF \E k \in DOMAIN UpperCase : UpperCase[k] = c
    THEN LowerCase[CHOOSE k \in DOMAIN UpperCase : UpperCase[k] = c]
    ELSE c

\* str.lower()
StrLower(s) == [k \in 1..Len(s) |-> LowerChar(s[k])]

\* str.replace(old, new) for one-character old and new
StrReplace(s, old, new) == [k \in 1..Len(s) |-> IF s[k] = old THEN new ELSE s[k]]

\* os.path.join(a, b) of posixpath: an absolute b wins, a separator is added
\* only when a does not end with one
PathJoin(a, b) ==
    IF Len(b) > 0 /\ b[1] = "/" THEN b
    ELSE IF Len(a) = 0 \/ a[Len(a)] = "/" THEN a \o b
    ELSE a \o <<"/">> \o b

(***************************************************************************)
(* Constants of main.py.                                                   *)
(***************************************************************************)
CLEANED_FOLDER == <<"d","a","t","a","/","c","l","e","a","n","e","d","_","d","a","t","a","s","e","t","s","/">>

\* DATASETS, in the dict's insertion order: the logical name and the input
\* path os.path.join(DATA_FOLDER, <file>) evaluates to
DATASETS ==
    << [name |-> <<"B","e","n","i","n"," ","M","a","l","a","n","v","i","l","l","e">>,
        path |-> "data/original_datasets/benin-malanville.csv"],
       [name |-> <<"S","i","e","r","r","a"," ","L","e","o","n","e"," ","B","u","m","b","u","n","a">>,
        path |-> "data/original_datasets/sierraleone-bumbuna.csv"],
       [name |-> <<"T","o","g","o"," ","D","a","p","a","o","n","g"," ","Q","C">>,
        path |-> "data/original_datasets/togo-dapaong_qc.csv"] >>

\* a dataset is named by its position in DATASETS
DatasetIds == DOMAIN DATASETS

outlier_columns == <<"GHI", "DNI", "DHI">>
module_columns == <<"TModA", "TModB", "Tamb">>
analysis_columns == <<"GHI", "DNI", "DHI", "Tamb", "RH", "WS">>

\* the tabs' analysis steps, in the order the script reaches them
ChartSteps ==
    <<"heatmap", "time_series", "wind_rose", "wind_direction",
      "outliers", "temp_humidity", "temp_trends", "pair_plot">>

ChartStepSet == {ChartSteps[k] : k \in DOMAIN ChartSteps}

\* the functions main.py calls: its own, and the names line 6 imports
MainCalls ==
    {"load_data", "load_and_clean_all_datasets", "plot_correlation_heatmap",
     "plot_time_series", "plot_wind_rose", "detect_outliers", "clean_dataset",
     "plot_wind_direction_distribution", "plot_temperature_vs_humidity",
     "plot_temperature_trends", "plot_pair_plot"}

(***************************************************************************)
(* Tables and input files.                                                 *)
(***************************************************************************)
\* pd.DataFrame(): no rows, no columns
EmptyDataFrame == [cols |-> {}, rows |-> 0]

AllColumns ==
    {"Timestamp", "GHI", "DNI", "DHI", "Tamb", "RH", "WS", "WD", "TModA", "TModB"}

\* what an input path holds: no readable CSV (missing, unreadable,
\* malformed), a full CSV with MaxRows rows, a CSV of a header alone with the
\* irradiance columns and WD, or a CSV without any column the charts look for
InputFiles ==
    {[ok |-> FALSE, table |-> EmptyDataFrame],
     [ok |-> TRUE, table |-> [cols |-> AllColumns, rows |-> MaxRows]],
     [ok |-> TRUE, table |-> [cols |-> {"GHI", "DNI", "DHI", "WD"}, rows |-> 0]],
     [ok |-> TRUE, table |-> [cols |-> {"Timestamp", "Comments"}, rows |-> MaxRows]]}

VARIABLES
    prog,            \* "dashboard" or "extract": what this process runs
    files,           \* the input file at each dataset's path
    cache_load,      \* st.cache_data memo of load_data, per dataset path
    cache_all,       \* st.cache_data memo of load_and_clean_all_datasets
    pc,              \* position of the script in the current render
    uncleaned_data,  \* local dict of load_and_clean_all_datasets / line 44
    cleaned_data,    \* local dict of load_and_clean_all_datasets / line 44
    out_path,        \* output path last passed to clean_dataset, per dataset
    widget,          \* the sidebar selectbox's value
    selected,        \* selected_dataset_name of this render ({} before line 47)
    errors,          \* st.error messages on the page, in order
    called,          \* chart steps whose function this render has called
    failed,          \* chart steps whose function raised in this render
    shown,           \* the displayed outlier count ({} when none is displayed)
    abortAt,         \* where an uncaught exception ended the render
    renders,         \* renders started so far
    reads,           \* pd.read_csv calls so far, per dataset
    cleans,          \* clean_dataset calls that returned so far, per dataset
    archive,         \* the archive handed to extract_datasets
    expc,            \* position inside extract_datasets
    dest,            \* members extracted into the destination directory
    opens,           \* times the archive has been opened
    printed          \* whether "Extracted ... to ..." has been printed

dashVars ==
    <<files, cache_load, cache_all, pc, uncleaned_data, cleaned_data, out_path,
      widget, selected, errors, called, failed, shown, abortAt, renders, reads,
      cleans>>

exVars == <<archive, expc, dest, opens, printed>>

vars == <<prog, dashVars, exVars>>

(***************************************************************************)
(* load_data                                                               *)
(***************************************************************************)
\* pd.read_csv(data_path) raises
ReadCsvRaises(f) == ~f.ok

\* the st.error of load_data's except branch
LoadErrorMessage(data_path) == [text |-> "Failed to load data from", arg |-> data_path]

\* what load_data returns
LoadDataValue(f) == IF ReadCsvRaises(f) THEN EmptyDataFrame ELSE f.table

LoadDataSilent(data_path, f) == <<>>

\* what load_data puts on the page
LoadDataErrors(data_path, f) ==
    IF ReadCsvRaises(f) THEN <<LoadErrorMessage(data_path)>> ELSE <<>>

(***************************************************************************)
(* load_and_clean_all_datasets                                             *)
(***************************************************************************)
CleanedPathNoReplace(name) ==
    PathJoin(CLEANED_FOLDER, StrLower(name) \o <<"_","c","l","e","a","n","e","d",".","c","s","v">>)

\* cleaned_path of line 39
CleanedPath(name) ==
    PathJoin(CLEANED_FOLDER,
             StrReplace(StrLower(name), " ", "_")
                 \o <<"_","c","l","e","a","n","e","d",".","c","s","v">>)

\* clean_dataset either returns a cleaned table or raises (a failed clean or
\* a failed write)
CleanOutcomes == {"ok", "raise"}

\* the cleaned table: the input's columns, its rows left open
CleanedTable(raw) == [cols |-> raw.cols]

LoopEndsAfterFirst(n) == n >= 1

\* the for loop of line 36 has gone through every item of DATASETS
LoopEnds(n) == n = Len(DATASETS)


(***************************************************************************)
(* The tabs.                                                               *)
(***************************************************************************)
\* the value line 49 binds: all_uncleaned_data.get(name, pd.DataFrame())
SelectedDataset(data, sel) ==
    IF sel \in DOMAIN data THEN data[sel] ELSE EmptyDataFrame

\* DataFrame.describe() raises ValueError("Cannot describe a DataFrame
\* without columns") on a table with no columns; isnull().sum() and
\* duplicated().sum() accept every table
DescribeRaises(t) == t.cols = {}

StepConditionNone(step, cols) == TRUE

\* the guard in front of each step (lines 87, 95, 103, 117, 130, 139, 149);
\* the correlation heatmap has none
StepCondition(step, cols) ==
    CASE step = "heatmap" -> TRUE
      [] step = "time_series" -> "Timestamp" \in cols
      [] step = "wind_rose" -> {"WD", "WS"} \subseteq cols
      [] step = "wind_direction" -> "WD" \in cols
      [] step = "outliers" -> \A k \in DOMAIN outlier_columns : outlier_columns[k] \in cols
      [] step = "temp_humidity" -> {"Tamb", "RH"} \subseteq cols
      [] step = "temp_trends" -> \A k \in DOMAIN module_columns : module_columns[k] \in cols
      [] step = "pair_plot" ->
            LET IsAvailable(col) == col \in cols
                available_columns == SelectSeq(analysis_columns, IsAvailable)
            IN  available_columns # <<>>

\* the st.error of each step's except branch
ChartErrorMessage(step) ==
    [text |-> CASE step = "heatmap" -> "Error plotting correlation heatmap"
                [] step = "time_series" -> "Error plotting time series trends"
                [] step = "wind_rose" -> "Error plotting wind rose"
                [] step = "wind_direction" -> "Error plotting wind direction distribution"
                [] step = "outliers" -> "Error detecting outliers"
                [] step = "temp_humidity" -> "Error plotting temperature vs. humidity"
                [] step = "temp_trends" -> "Error plotting temperature trends"
                [] step = "pair_plot" -> "Error plotting pair plot",
     arg |-> ""]

\* the step the script reaches after `step`
NextPc(step) ==
    LET k == CHOOSE j \in DOMAIN ChartSteps : ChartSteps[j] = step
    IN  IF k = Len(ChartSteps) THEN "done" ELSE ChartSteps[k + 1]

AfterChartUncaught(step, raised) == IF raised THEN "aborted" ELSE NextPc(step)

\* every step's call sits in try / except Exception: raised or not, the
\* script goes on with the next step
AfterChart(step, raised) == NextPc(step)

\* a chart helper either draws or raises
PlotOutcomes == {"ok", "raise"}

\* valid_data of line 119: the three columns, every row
ValidData(t) == [cols |-> {outlier_columns[k] : k \in DOMAIN outlier_columns}, rows |-> t.rows]

\* detect_outliers returns a subset of the rows of the table it is given, or
\* raises; the model keeps the subset's size
DetectOutliers(t) == 0..t.rows

DisplayedColumnCount(outliers) == Len(outlier_columns)

\* len(outliers) of line 121
DisplayedCount(outliers) == outliers

(***************************************************************************)
(* extract_datasets                                                        *)
(***************************************************************************)
\* the archives the model hands to extract_datasets: one that cannot be
\* opened, or members 1..size of which those in bad fail to extract
Archives ==
    {[openable |-> o, size |-> n, bad |-> b] :
        o \in BOOLEAN, n \in 0..MaxMembers, b \in SUBSET (1..MaxMembers)}

NoArchive == [openable |-> FALSE, size |-> 0, bad |-> {}]

\* the functions a process of each kind invokes
Invokes(p) == IF p = "dashboard" THEN MainCalls ELSE {"extract_datasets"}

ExtractAllReturnsEarly(d, a) == TRUE

\* zip.extractall returns once every member is extracted
ExtractAllReturns(d, a) == d = 1..a.size

(***************************************************************************)
(* Initial state: a process has started, nothing has run yet.              *)
(***************************************************************************)
Init ==
    /\ prog \in {"dashboard", "extract"}
    /\ IF prog = "dashboard"
       THEN /\ files \in [DatasetIds -> InputFiles]
            /\ archive = NoArchive
       ELSE /\ files = [i \in DatasetIds |-> [ok |-> FALSE, table |-> EmptyDataFrame]]
            /\ archive \in {a \in Archives : a.bad \subseteq 1..a.size}
    /\ cache_load = [i \in DatasetIds |-> <<>>]
    /\ cache_all = <<>>
    /\ pc = "idle"
    /\ uncleaned_data = <<>>
    /\ cleaned_data = <<>>
    /\ out_path = [i \in DatasetIds |-> <<>>]
    /\ widget = 1
    /\ selected = {}
    /\ errors = <<>>
    /\ called = {}
    /\ failed = {}
    /\ shown = {}
    /\ abortAt = "none"
    /\ renders = 0
    /\ reads = [i \in DatasetIds |-> 0]
    /\ cleans = [i \in DatasetIds |-> 0]
    /\ expc = "idle"
    /\ dest = {}
    /\ opens = 0
    /\ printed = FALSE

(***************************************************************************)
(* The dashboard script, one render at a time.                             *)
(***************************************************************************)
\* Streamlit runs the script from the top: at start-up with the selectbox on
\* its first option, later on any interaction with the selectbox
StartRender ==
    /\ prog = "dashboard"
    /\ pc \in {"idle", "done", "aborted"}
    /\ renders < MaxRenders
    /\ renders' = renders + 1
    /\ widget' \in (IF renders = 0 THEN {1} ELSE DatasetIds)
    /\ pc' = "L44"
    /\ uncleaned_data' = <<>>
    /\ cleaned_data' = <<>>
    /\ selected' = {}
    /\ errors' = <<>>
    /\ called' = {}
    /\ failed' = {}
    /\ shown' = {}
    /\ abortAt' = "none"
    /\ UNCHANGED <<prog, files, cache_load, cache_all, out_path, reads, cleans, exVars>>

\* line 44: the call of the memoized load_and_clean_all_datasets.  A hit
\* returns the stored dicts and replays the st.error messages recorded with
\* them; a miss runs the body
CallLoadAndClean ==
    /\ pc = "L44"
    /\ IF cache_all # <<>>
       THEN /\ cleaned_data' = cache_all[1].cleaned
            /\ uncleaned_data' = cache_all[1].uncleaned
            /\ errors' = errors \o cache_all[1].msgs
            /\ pc' = "L47"
       ELSE /\ pc' = "load"
            /\ UNCHANGED <<cleaned_data, uncleaned_data, errors>>
    /\ UNCHANGED <<prog, files, cache_load, cache_all, out_path, widget, selected,
                   called, failed, shown, abortAt, renders, reads, cleans, exVars>>

\* lines 37-38: load_data(path) through its memo, then the store into
\* uncleaned_data.  A miss reads the file once and records the result with
\* the messages it put on the page; a hit returns the record and replays its
\* messages
LoadData ==
    /\ pc = "load"
    /\ LET i == Len(uncleaned_data) + 1
           data_path == DATASETS[i].path
           hit == cache_load[i] # <<>>
           entry == IF hit THEN cache_load[i][1]
                    ELSE [value |-> LoadDataValue(files[i]),
                          msgs |-> LoadDataErrors(data_path, files[i])]
       IN  /\ cache_load' = [cache_load EXCEPT ![i] = <<entry>>]
           /\ reads' = IF hit THEN reads ELSE [reads EXCEPT ![i] = @ + 1]
           /\ uncleaned_data' = Append(uncleaned_data, entry.value)
           /\ errors' = errors \o entry.msgs
    /\ pc' = "clean"
    /\ UNCHANGED <<prog, files, cache_all, cleaned_data, out_path, widget, selected,
                   called, failed, shown, abortAt, renders, cleans, exVars>>

\* lines 39-41: the call of clean_dataset on the table just loaded.  Nothing
\* guards the call: when it raises, the exception leaves
\* load_and_clean_all_datasets and line 44 and ends the render, and nothing
\* is memoized.  After the last item the function returns and its result is
\* memoized with the messages of the call
CleanDataset ==
    /\ pc = "clean"
    /\ LET i == Len(uncleaned_data)
           raw_data == uncleaned_data[i]
       IN  /\ out_path' = [out_path EXCEPT ![i] = CleanedPath(DATASETS[i].name)]
           /\ \E o \in CleanOutcomes :
                IF o = "raise"
                THEN /\ pc' = "aborted"
                     /\ abortAt' = "clean_dataset"
                     /\ UNCHANGED <<cleaned_data, cache_all, cleans>>
                ELSE /\ cleaned_data' = Append(cleaned_data, CleanedTable(raw_data))
                     /\ cleans' = [cleans EXCEPT ![i] = @ + 1]
                     /\ abortAt' = abortAt
                     /\ IF LoopEnds(i)
                        THEN /\ cache_all' = <<[cleaned |-> cleaned_data',
                                               uncleaned |-> uncleaned_data,
                                               msgs |-> errors]>>
                             /\ pc' = "L47"
                        ELSE /\ pc' = "load"
                             /\ UNCHANGED cache_all
    /\ UNCHANGED <<prog, files, cache_load, uncleaned_data, widget, selected, errors,
                   called, failed, shown, renders, reads, exVars>>

\* lines 47-49: the selectbox is evaluated and the raw table of the selected
\* name is bound
SelectDataset ==
    /\ pc = "L47"
    /\ selected' = {widget}
    /\ pc' = "eda"
    /\ UNCHANGED <<prog, files, cache_load, cache_all, uncleaned_data, cleaned_data,
                   out_path, widget, errors, called, failed, shown, abortAt, renders,
                   reads, cleans, exVars>>

\* the selected table, once line 49 has run
selected_dataset ==
    SelectedDataset(uncleaned_data, CHOOSE s \in selected : TRUE)

\* lines 59-74: the Overview and EDA tabs.  Nothing guards describe(): when it
\* raises, the render ends there
EdaTab ==
    /\ pc = "eda"
    /\ IF DescribeRaises(selected_dataset)
       THEN /\ pc' = "aborted"
            /\ abortAt' = "describe"
       ELSE /\ pc' = ChartSteps[1]
            /\ abortAt' = abortAt
    /\ UNCHANGED <<prog, files, cache_load, cache_all, uncleaned_data, cleaned_data,
                   out_path, widget, selected, errors, called, failed, shown, renders,
                   reads, cleans, exVars>>

\* one plot step of the Visualizations and Advanced Analysis tabs: skipped
\* when its guard fails, else the helper is called inside try/except
PlotStep ==
    /\ pc \in ChartStepSet \ {"outliers"}
    /\ IF StepCondition(pc, selected_dataset.cols)
       THEN \E o \in PlotOutcomes :
              /\ called' = called \cup {pc}
              /\ failed' = IF o = "raise" THEN failed \cup {pc} ELSE failed
              /\ pc' = AfterChart(pc, o = "raise")
              /\ errors' = IF o = "raise" /\ pc' # "aborted"
                           THEN Append(errors, ChartErrorMessage(pc)) ELSE errors
              /\ abortAt' = IF pc' = "aborted" THEN pc ELSE abortAt
       ELSE /\ pc' = NextPc(pc)
            /\ UNCHANGED <<called, failed, errors, abortAt>>
    /\ UNCHANGED <<prog, files, cache_load, cache_all, uncleaned_data, cleaned_data,
                   out_path, widget, selected, shown, renders, reads, cleans, exVars>>

\* lines 115-127: detect_outliers on the three columns, the count written,
\* then the boxplot, all inside one try/except
OutlierStep ==
    /\ pc = "outliers"
    /\ IF StepCondition(pc, selected_dataset.cols)
       THEN LET valid_data == ValidData(selected_dataset)
            IN  /\ called' = called \cup {pc}
                /\ \/ \* detect_outliers raises
                      /\ shown' = shown
                      /\ failed' = failed \cup {pc}
                   \/ \* the count is written, the boxplot draws or raises
                      \E outliers \in DetectOutliers(valid_data), o \in PlotOutcomes :
                        /\ shown' = {DisplayedCount(outliers)}
                        /\ failed' = IF o = "raise" THEN failed \cup {pc} ELSE failed
                /\ pc' = AfterChart(pc, pc \in failed')
                /\ errors' = IF pc \in failed' /\ pc' # "aborted"
                             THEN Append(errors, ChartErrorMessage(pc)) ELSE errors
                /\ abortAt' = IF pc' = "aborted" THEN pc ELSE abortAt
       ELSE /\ pc' = NextPc(pc)
            /\ UNCHANGED <<called, failed, errors, abortAt, shown>>
    /\ UNCHANGED <<prog, files, cache_load, cache_all, uncleaned_data, cleaned_data,
                   out_path, widget, selected, renders, reads, cleans, exVars>>

(***************************************************************************)
(* A caller of extract_datasets.                                           *)
(***************************************************************************)
\* the call
ExtractCall ==
    /\ "extract_datasets" \in Invokes(prog)
    /\ expc = "idle"
    /\ expc' = "open"
    /\ UNCHANGED <<prog, dashVars, archive, dest, opens, printed>>

\* line 5: zipfile.ZipFile(input_data_path, 'r') opens the archive or raises
ExtractOpen ==
    /\ expc = "open"
    /\ opens' = opens + 1
    /\ expc' = IF archive.openable THEN "extractall" ELSE "raised"
    /\ UNCHANGED <<prog, dashVars, archive, dest, printed>>

\* line 6: extractall writes the next member, or raises on it; the with
\* block closes the archive and lets the exception through
ExtractMember ==
    /\ expc = "extractall"
    /\ Cardinality(dest) < archive.size
    /\ LET m == Cardinality(dest) + 1
       IN  IF m \in archive.bad
           THEN /\ expc' = "raised"
                /\ dest' = dest
           ELSE /\ dest' = dest \cup {m}
                /\ expc' = expc
    /\ UNCHANGED <<prog, dashVars, archive, opens, printed>>

\* line 7: the print after extractall has returned
ExtractReport ==
    /\ expc = "extractall"
    /\ ExtractAllReturns(dest, archive)
    /\ printed' = TRUE
    /\ expc' = "returned"
    /\ UNCHANGED <<prog, dashVars, archive, dest, opens>>

Next ==
    \/ StartRender
    \/ CallLoadAndClean
    \/ LoadData
    \/ CleanDataset
    \/ SelectDataset
    \/ EdaTab
    \/ PlotStep
    \/ OutlierStep
    \/ ExtractCall
    \/ ExtractOpen
    \/ ExtractMember
    \/ ExtractReport

Spec == Init /\ [][Next]_vars

(***************************************************************************)
(* Properties.                                                             *)
(***************************************************************************)
\* occurrences of message m on the page
Count(msgs, m) == Cardinality({k \in DOMAIN msgs : msgs[k] = m})

\* the columns of the selected table (none before line 49 has run)
SelectedCols == IF selected = {} THEN {} ELSE selected_dataset.cols

\* the chart steps the script has gone past
PassedSteps ==
    IF pc = "done" THEN ChartStepSet
    ELSE IF pc \in ChartStepSet
         THEN {ChartSteps[k] : k \in {j \in DOMAIN ChartSteps :
                    j < (CHOOSE n \in DOMAIN ChartSteps : ChartSteps[n] = pc)}}
         ELSE {}

\* the message expected of each step: "Error ...", then the step's name
StepMessage ==
    [heatmap |-> [text |-> "Error plotting correlation heatmap", arg |-> ""],
     time_series |-> [text |-> "Error plotting time series trends", arg |-> ""],
     wind_rose |-> [text |-> "Error plotting wind rose", arg |-> ""],
     wind_direction |-> [text |-> "Error plotting wind direction distribution", arg |-> ""],
     outliers |-> [text |-> "Error detecting outliers", arg |-> ""],
     temp_humidity |-> [text |-> "Error plotting temperature vs. humidity", arg |-> ""],
     temp_trends |-> [text |-> "Error plotting temperature trends", arg |-> ""],
     pair_plot |-> [text |-> "Error plotting pair plot", arg |-> ""]]

\* the columns each step is said to need
RequiredColumns ==
    [heatmap |-> {},
     time_series |-> {"Timestamp"},
     wind_rose |-> {"WD", "WS"},
     wind_direction |-> {"WD"},
     outliers |-> {"GHI", "DNI", "DHI"},
     temp_humidity |-> {"Tamb", "RH"},
     temp_trends |-> {"TModA", "TModB", "Tamb"},
     pair_plot |-> {"GHI", "DNI", "DHI", "Tamb", "RH", "WS"}]

\* C1: load_data always returns.  For every dataset the current render has
\* loaded: the file was read exactly once in the process; when the read
\* failed the table is the one with 0 rows and 0 columns and the page shows
\* exactly one "Failed to load data from <path>" for its path; when it
\* succeeded the table is the parsed one and the page shows no message for
\* its path.  No message names a path the render has not loaded.
C1_LoadDataContract ==
    \A i \in DatasetIds :
        LET msg == [text |-> "Failed to load data from", arg |-> DATASETS[i].path]
        IN  IF i \in DOMAIN uncleaned_data
            THEN /\ reads[i] = 1
                 /\ IF files[i].ok
                    THEN /\ uncleaned_data[i] = files[i].table
                         /\ Count(errors, msg) = 0
                    ELSE /\ uncleaned_data[i] = [cols |-> {}, rows |-> 0]
                         /\ Count(errors, msg) = 1
            ELSE Count(errors, msg) = 0

\* C1 witness: a render has loaded a file whose read failed and a file with
\* rows
C1_Witness ==
    \E i, j \in DOMAIN uncleaned_data :
        /\ ~files[i].ok
        /\ files[j].ok
        /\ files[j].table.rows > 0

\* C2: no chart step's failure ends the render; every step the script has
\* gone past whose column condition holds was called, whichever steps
\* failed; and the page shows exactly one message naming a step for each
\* step that failed, none for the others.
C2_ChartFaultIsolation ==
    /\ pc = "aborted" => abortAt \notin ChartStepSet
    /\ failed \subseteq called
    /\ \A s \in PassedSteps : StepCondition(s, SelectedCols) => s \in called
    /\ \A s \in ChartStepSet :
          Count(errors, StepMessage[s]) = IF s \in failed THEN 1 ELSE 0

\* C2 witness: a finished render in which all eight steps were called and
\* the time series, the outlier step and the pair plot failed
C2_Witness ==
    /\ pc = "done"
    /\ called = ChartStepSet
    /\ failed = {"time_series", "outliers", "pair_plot"}

C4_EmptyTableRenderCompletes ==
    (selected # {} /\ \A s \in selected : ~files[s].ok) => pc # "aborted"

\* C5: a failure of clean_dataset never ends the render.
C5_CleanFailureIsolated ==
    ~(pc = "aborted" /\ abortAt = "clean_dataset")

\* the position is at or past the evaluation of the selectbox
AtOrPastSelection ==
    \/ pc \in {"L47", "eda", "done"} \cup ChartStepSet
    \/ pc = "aborted" /\ abortAt # "clean_dataset"

\* every configured dataset is loaded and cleaned
AllLoadedAndCleaned ==
    \A i \in DatasetIds :
        /\ i \in DOMAIN uncleaned_data /\ reads[i] >= 1
        /\ i \in DOMAIN cleaned_data /\ cleans[i] >= 1

\* a dataset is cleaned only after it is loaded
LoadPrecedesClean ==
    \A i \in DatasetIds :
        /\ cleans[i] >= 1 => reads[i] >= 1
        /\ i \in DOMAIN cleaned_data => i \in DOMAIN uncleaned_data

\* C6: in every step, the state reached has every dataset loaded and cleaned
\* if the script is at or past the selectbox, and has no dataset cleaned
\* before it is loaded; and once the selection has been evaluated in a
\* render, no step of it reads a file or cleans a dataset.
C6_EagerLoadBeforeSelection ==
    [][/\ AtOrPastSelection' => AllLoadedAndCleaned'
       /\ LoadPrecedesClean'
       /\ selected # {} => UNCHANGED <<reads, cleans>>]_vars

\* C6 witness: a second render, with the third dataset selected, has
\* finished and every file was read once and every dataset cleaned once
C6_Witness ==
    /\ renders = 2
    /\ selected = {3}
    /\ pc = "done"
    /\ \A i \in DatasetIds : reads[i] = 1 /\ cleans[i] = 1

\* C7: in a process each input file is read at most once and each dataset is
\* cleaned (clean_dataset returning, the file written) at most once.
C7_ReadAndCleanedAtMostOnce ==
    \A i \in DatasetIds : reads[i] <= 1 /\ cleans[i] <= 1

\* the paths the cleaned files are expected at
ExpectedCleanedPath ==
    << <<"d","a","t","a","/","c","l","e","a","n","e","d","_","d","a","t","a","s","e","t","s","/","b","e","n","i","n","_","m","a","l","a","n","v","i","l","l","e","_","c","l","e","a","n","e","d",".","c","s","v">>,
       <<"d","a","t","a","/","c","l","e","a","n","e","d","_","d","a","t","a","s","e","t","s","/","s","i","e","r","r","a","_","l","e","o","n","e","_","b","u","m","b","u","n","a","_","c","l","e","a","n","e","d",".","c","s","v">>,
       <<"d","a","t","a","/","c","l","e","a","n","e","d","_","d","a","t","a","s","e","t","s","/","t","o","g","o","_","d","a","p","a","o","n","g","_","q","c","_","c","l","e","a","n","e","d",".","c","s","v">> >>

\* C8: the path passed to clean_dataset for a dataset is
\* data/cleaned_datasets/<name in lower case, spaces as underscores>_cleaned.csv,
\* the same in every render, and the paths of two datasets differ.
C8_CleanedPathPerName ==
    \A i \in DatasetIds :
        out_path[i] # <<>> =>
            /\ out_path[i] = ExpectedCleanedPath[i]
            /\ \A j \in DatasetIds \ {i} : out_path[j] # <<>> => out_path[j] # out_path[i]

\* C8 witness: clean_dataset has been called for all three datasets
C8_Witness ==
    \A i \in DatasetIds : out_path[i] # <<>>

C10_ExtractThenReport ==
    /\ printed => dest = 1..archive.size /\ expc = "returned"
    /\ expc = "raised" => ~printed
    /\ opens <= 1
    /\ prog = "dashboard" => expc = "idle" /\ opens = 0 /\ dest = {} /\ ~printed

\* C10 witness: completion printed for an archive of at least two members
C10_Witness ==
    /\ printed
    /\ Cardinality(dest) >= 2

=============================================================================
